---- MODULE Spec2Model ----
(***************************************************************************)
(* Model of wgpu-mipmap's copy backend (src/backends/copy.rs):             *)
(* CopyMipmapGenerator::required_usage and CopyMipmapGenerator::generate,  *)
(* together with the parts of the crate it calls into                      *)
(* (RenderMipmapGenerator::generate_src_dst, util::get_mip_extent).        *)
(*                                                                         *)
(* A texture is an index into `textures`, the list of descriptors the      *)
(* device was asked to create.  The command encoder is the sequence of     *)
(* recorded commands; nothing is ever submitted.                           *)
(***************************************************************************)
EXTENDS Integers, Sequences, FiniteSets, TLC

VARIABLES
    pipelines,           \* formats registered in the wrapped RenderMipmapGenerator
    texture_descriptor,  \* the caller's descriptor of the original texture
    textures,            \* descriptors passed to device.create_texture, in order
    encoder,             \* commands recorded into the caller's CommandEncoder
    calls,               \* one record per finished generate call
    usage_queries,       \* number of required_usage() calls so far
    last_usage           \* what the last required_usage() call returned

vars == <<pipelines, texture_descriptor, textures, encoder, calls,
          usage_queries, last_usage>>

----------------------------------------------------------------------------
(* Bounds of the model *)

MaxDim == 4
MaxLayers == 2
MaxMips == 3
MaxCalls == 2
MaxQueries == 1

----------------------------------------------------------------------------
(* Values *)

TextureUsages == {"COPY_SRC", "COPY_DST", "TEXTURE_BINDING", "RENDER_ATTACHMENT"}

Formats == {"R8Unorm", "Rgba8Unorm"}

SampleCounts == {1, 4}

Dimensions == {"D2"}

Extents ==
    [width : 1..MaxDim, height : 1..MaxDim, depth_or_array_layers : 1..MaxLayers]

Descriptors ==
    [size : Extents,
     mip_level_count : 1..MaxMips,
     sample_count : SampleCounts,
     dimension : Dimensions,
     format : Formats,
     usage : SUBSET TextureUsages]

Ok == [kind |-> "Ok", usage |-> {}, format |-> "-"]

UnsupportedUsage(usage) == [kind |-> "UnsupportedUsage", usage |-> usage, format |-> "-"]

UnsupportedFormat(format) == [kind |-> "UnsupportedFormat", usage |-> {}, format |-> format]

Max(a, b) == IF a >= b THEN a ELSE b

RECURSIVE shr(_, _)
shr(d, i) == IF i = 0 THEN d ELSE shr(d \div 2, i - 1)

\* floor(log2(n)) for n >= 1
RECURSIVE log2(_)
log2(n) == IF n <= 1 THEN 0 ELSE 1 + log2(n \div 2)

\* the tests' mip_level_count of a full chain
full_mip_level_count(size) == 1 + log2(Max(size.width, size.height))

----------------------------------------------------------------------------
(* util::get_mip_extent: max(1, d >> level) on width and height; the array *)
(* layers of a 2D texture do not shrink.                                   *)

get_mip_extent(extent, level) ==
    [width |-> Max(1, shr(extent.width, level)),
     height |-> Max(1, shr(extent.height, level)),
     depth_or_array_layers |-> extent.depth_or_array_layers]

----------------------------------------------------------------------------
(* RenderMipmapGenerator *)

RenderMipmapGenerator_required_usage == {"TEXTURE_BINDING", "RENDER_ATTACHMENT"}

\* The render passes of generate_src_dst: destination level 0 is rendered
\* from source level src_base_level, every further destination level from
\* the destination level before it.
render_passes(src_texture, dst_texture, dst_descriptor, src_base_level) ==
    [n \in 1..dst_descriptor.mip_level_count |->
        [op |-> "render_pass",
         src |-> IF n = 1
                 THEN [texture |-> src_texture, mip_level |-> src_base_level]
                 ELSE [texture |-> dst_texture, mip_level |-> n - 2],
         dst |-> [texture |-> dst_texture, mip_level |-> n - 1],
         size |-> get_mip_extent(dst_descriptor.size, n - 1)]]

generate_src_dst(enc, src_texture, dst_texture, src_descriptor, dst_descriptor, src_base_level) ==
    IF "TEXTURE_BINDING" \notin src_descriptor.usage
    THEN [res |-> UnsupportedUsage(src_descriptor.usage), encoder |-> enc]
    ELSE IF ~(RenderMipmapGenerator_required_usage \subseteq dst_descriptor.usage)
    THEN [res |-> UnsupportedUsage(dst_descriptor.usage), encoder |-> enc]
    ELSE IF src_descriptor.format \notin pipelines
    THEN [res |-> UnsupportedFormat(src_descriptor.format), encoder |-> enc]
    ELSE [res |-> Ok,
          encoder |-> enc \o render_passes(src_texture, dst_texture,
                                           dst_descriptor, src_base_level)]

----------------------------------------------------------------------------
(* CopyMipmapGenerator *)

required_usage_without_copy_dst == {"TEXTURE_BINDING", "COPY_SRC"}

required_usage == {"TEXTURE_BINDING", "COPY_DST"}

tmp_descriptor_full_size(descriptor) ==
    [size |-> descriptor.size,
     mip_level_count |-> descriptor.mip_level_count - 1,
     sample_count |-> descriptor.sample_count,
     dimension |-> descriptor.dimension,
     format |-> descriptor.format,
     usage |-> RenderMipmapGenerator_required_usage \cup {"COPY_SRC"}]

tmp_descriptor_same_mip_count(descriptor) ==
    [size |-> get_mip_extent(descriptor.size, 1),
     mip_level_count |-> descriptor.mip_level_count,
     sample_count |-> descriptor.sample_count,
     dimension |-> descriptor.dimension,
     format |-> descriptor.format,
     usage |-> RenderMipmapGenerator_required_usage \cup {"COPY_SRC"}]

tmp_descriptor_copy_usage(descriptor) ==
    [size |-> get_mip_extent(descriptor.size, 1),
     mip_level_count |-> descriptor.mip_level_count - 1,
     sample_count |-> descriptor.sample_count,
     dimension |-> descriptor.dimension,
     format |-> descriptor.format,
     usage |-> required_usage \cup {"COPY_SRC"}]

\* copy.rs lines 39-47
tmp_descriptor(descriptor) ==
    [size |-> get_mip_extent(descriptor.size, 1),
     mip_level_count |-> descriptor.mip_level_count - 1,
     sample_count |-> descriptor.sample_count,
     dimension |-> descriptor.dimension,
     format |-> descriptor.format,
     usage |-> RenderMipmapGenerator_required_usage \cup {"COPY_SRC"}]

question_mark_ignored(res) == FALSE

\* the `?` of line 57: leave generate with the wrapped generator's error
question_mark(res) == res.kind # "Ok"

copy_commands_reversed(tmp_texture, texture, tmp_desc) ==
    [n \in 1..tmp_desc.mip_level_count |->
        LET i == tmp_desc.mip_level_count - n IN
        [op |-> "copy_texture_to_texture",
         src |-> [texture |-> tmp_texture, mip_level |-> i],
         dst |-> [texture |-> texture, mip_level |-> i + 1],
         size |-> get_mip_extent(tmp_desc.size, i)]]

\* copy.rs lines 58-75: for i in 0..mip_count, one copy of temporary level i
\* into level i + 1 of the original
copy_commands(tmp_texture, texture, tmp_desc) ==
    [n \in 1..tmp_desc.mip_level_count |->
        LET i == n - 1 IN
        [op |-> "copy_texture_to_texture",
         src |-> [texture |-> tmp_texture, mip_level |-> i],
         dst |-> [texture |-> texture, mip_level |-> i + 1],
         size |-> get_mip_extent(tmp_desc.size, i)]]

\* copy.rs lines 28-77.  `created` is the device's list of created textures.
generate(created, enc, texture, descriptor) ==
    LET tmp_desc == tmp_descriptor(descriptor)
        created2 == Append(created, tmp_desc)
        tmp_texture == Len(created2)
        inner == generate_src_dst(enc, texture, tmp_texture, descriptor, tmp_desc, 1)
    IN  [textures |-> created2,
         tmp_texture |-> tmp_texture,
         src_base_level |-> 1,
         inner |-> inner.res,
         result |-> IF question_mark(inner.res) THEN inner.res ELSE Ok,
         encoder |-> IF question_mark(inner.res)
                     THEN inner.encoder
                     ELSE inner.encoder \o copy_commands(tmp_texture, texture, tmp_desc)]

----------------------------------------------------------------------------
(* The caller: tests::generate_test builds the render generator with its   *)
(* format hints, creates the texture from the descriptor (level 0 is the   *)
(* caller's to fill) and a fresh encoder.                                  *)

texture == 1

Init ==
    /\ pipelines \in SUBSET Formats
    /\ texture_descriptor \in Descriptors
    /\ textures = <<texture_descriptor>>
    /\ encoder = <<>>
    /\ calls = <<>>
    /\ usage_queries = 0
    /\ last_usage = {}

Generate ==
    /\ Len(calls) < MaxCalls
    /\ LET g == generate(textures, encoder, texture, texture_descriptor) IN
        /\ textures' = g.textures
        /\ encoder' = g.encoder
        /\ calls' = Append(calls,
                [tmp_texture |-> g.tmp_texture,
                 src_base_level |-> g.src_base_level,
                 inner |-> g.inner,
                 result |-> g.result,
                 first |-> Len(encoder) + 1,
                 last |-> Len(g.encoder)])
    /\ UNCHANGED <<pipelines, texture_descriptor, usage_queries, last_usage>>

RequiredUsage ==
    /\ usage_queries < MaxQueries
    /\ usage_queries' = usage_queries + 1
    /\ last_usage' = required_usage
    /\ UNCHANGED <<pipelines, texture_descriptor, textures, encoder, calls>>

Next == Generate \/ RequiredUsage

Spec == Init /\ [][Next]_vars

----------------------------------------------------------------------------
(* What the recorded commands do to texture contents when the encoder is   *)
(* later executed in order.  A slot is <<texture, mip level>>.  `populated`*)
(* holds the slots written so far; `halvings` holds <<slot, k>> when the   *)
(* slot holds level 0 of the original downsampled by k successive          *)
(* halvings.  A render pass downsamples once, a copy carries content over. *)

slot(ref) == <<ref.texture, ref.mip_level>>

InitialStore ==
    [populated |-> {<<texture, 0>>}, halvings |-> {<<<<texture, 0>>, 0>>}]

Apply(store, cmd) ==
    LET step == IF cmd.op = "render_pass" THEN 1 ELSE 0
        read == {f \in store.halvings : f[1] = slot(cmd.src)}
        kept == {f \in store.halvings : f[1] # slot(cmd.dst)}
    IN  [populated |-> store.populated \cup {slot(cmd.dst)},
         halvings |-> kept \cup {<<slot(cmd.dst), f[2] + step>> : f \in read}]

RECURSIVE StoreAfter(_)
StoreAfter(n) == IF n = 0 THEN InitialStore ELSE Apply(StoreAfter(n - 1), encoder[n])

\* the halvings of level 0 that command i reads from its source
Carried(i) == {f[2] : f \in {g \in StoreAfter(i - 1).halvings : g[1] = slot(encoder[i].src)}}

----------------------------------------------------------------------------
(* Shorthands for the properties below *)

N == texture_descriptor.mip_level_count

Call(n) == calls[n]

Range(n) == calls[n].first..calls[n].last

Succeeded(n) == calls[n].result.kind = "Ok"

IsCopy(i) == encoder[i].op = "copy_texture_to_texture"

IsRender(i) == encoder[i].op = "render_pass"

OriginalLevel(k) == [texture |-> texture, mip_level |-> k]

TmpLevel(n, j) == [texture |-> calls[n].tmp_texture, mip_level |-> j]

----------------------------------------------------------------------------
C2_EmptyUsageRejected ==
    \A n \in 1..Len(calls) :
        texture_descriptor.usage = {} =>
            /\ Call(n).result.kind = "UnsupportedUsage"
            /\ Call(n).result.usage = texture_descriptor.usage
            /\ Call(n).result.usage = {}

C2_Witness ==
    /\ Len(calls) >= 1
    /\ texture_descriptor.usage = {}
    /\ texture_descriptor.format \notin pipelines
    /\ N = MaxMips

\* C3: generate on a descriptor whose usage is exactly required_usage(),
\* with a registered format and a full mip chain, returns Ok; with at least
\* required_usage() declared, the error is never UnsupportedUsage of the
\* original's usage.
C3_RequiredUsageSuffices ==
    \A n \in 1..Len(calls) :
        /\ ( /\ texture_descriptor.usage = {"TEXTURE_BINDING", "COPY_DST"}
             /\ texture_descriptor.format \in pipelines
             /\ N = full_mip_level_count(texture_descriptor.size) )
           => Succeeded(n)
        /\ {"TEXTURE_BINDING", "COPY_DST"} \subseteq texture_descriptor.usage
           => Call(n).result # UnsupportedUsage(texture_descriptor.usage)

C3_Witness ==
    /\ Len(calls) >= 1
    /\ texture_descriptor.usage = {"TEXTURE_BINDING", "COPY_DST"}
    /\ "RENDER_ATTACHMENT" \notin texture_descriptor.usage
    /\ texture_descriptor.format \in pipelines
    /\ N = full_mip_level_count(texture_descriptor.size)
    /\ N = 3
    /\ Succeeded(1)

\* C4: generate on a descriptor with one mip level, a usage containing
\* required_usage() and a registered format returns Ok without creating a temporary texture, without
\* invoking the wrapped generator and without recording a command; no texture
\* with mip level count 0 is ever requested from the device.
C4_SingleLevelIsNoOp ==
    \A n \in 1..Len(calls) :
        ( /\ N = 1
          /\ {"TEXTURE_BINDING", "COPY_DST"} \subseteq texture_descriptor.usage
          /\ texture_descriptor.format \in pipelines ) =>
            /\ Succeeded(n)
            /\ Call(n).tmp_texture = 0
            /\ Call(n).inner.kind = "NotInvoked"
            /\ Range(n) = {}
            /\ Len(textures) = 1
            /\ \A t \in 1..Len(textures) : textures[t].mip_level_count # 0

\* C5: when the wrapped generator's generate_src_dst returns Err(E), generate
\* returns the same Err(E) (kind and payload) and appends no copy.
C5_ErrorsPropagateUnchanged ==
    \A n \in 1..Len(calls) :
        Call(n).inner.kind # "Ok" =>
            /\ Call(n).result = Call(n).inner
            /\ \A i \in Range(n) : ~IsCopy(i)
            /\ \A i \in 1..Len(encoder) :
                IsCopy(i) => encoder[i].src.texture # Call(n).tmp_texture

C5_Witness ==
    /\ Len(calls) = MaxCalls
    /\ Call(1).inner.kind = "UnsupportedFormat"
    /\ Call(1).result = UnsupportedFormat(texture_descriptor.format)
    /\ N >= 2

\* C6: required_usage() returns exactly {TEXTURE_BINDING, COPY_DST} on every
\* call, whatever generator is wrapped and however many generate calls came
\* before.
C6_RequiredUsageIsConstant ==
    usage_queries > 0 => last_usage = {"TEXTURE_BINDING", "COPY_DST"}

C6_Witness ==
    /\ usage_queries > 0
    /\ Len(calls) = MaxCalls
    /\ Succeeded(1)
    /\ pipelines = Formats

\* C7: no recorded command uses a texture outside that texture's declared
\* usage: a sampled source needs TEXTURE_BINDING, a render target
\* RENDER_ATTACHMENT, a copy source COPY_SRC, a copy destination COPY_DST;
\* the original is never a render target and never a copy source.
C7_CommandsWithinDeclaredUsage ==
    \A i \in 1..Len(encoder) :
        /\ IsRender(i) =>
            /\ "TEXTURE_BINDING" \in textures[encoder[i].src.texture].usage
            /\ "RENDER_ATTACHMENT" \in textures[encoder[i].dst.texture].usage
            /\ encoder[i].dst.texture # texture
        /\ IsCopy(i) =>
            /\ "COPY_SRC" \in textures[encoder[i].src.texture].usage
            /\ "COPY_DST" \in textures[encoder[i].dst.texture].usage
            /\ encoder[i].src.texture # texture

\* C8: in a successful generate call every render pass is recorded before
\* every copy; the pass writing temporary level j comes after the pass
\* writing level j-1 and before the copy reading level j; the copies are
\* recorded in increasing level order 0, 1, ..., N-2.
C8_RendersBeforeCopiesInLevelOrder ==
    \A n \in 1..Len(calls) :
        Succeeded(n) =>
            /\ \A i, j \in Range(n) : (IsRender(i) /\ IsCopy(j)) => i < j
            /\ \A l \in 0..(N - 2) :
                /\ \E r \in Range(n) : IsRender(r) /\ encoder[r].dst = TmpLevel(n, l)
                /\ \E c \in Range(n) : IsCopy(c) /\ encoder[c].src = TmpLevel(n, l)
                /\ \A r, c \in Range(n) :
                    ( /\ IsRender(r) /\ encoder[r].dst = TmpLevel(n, l)
                      /\ IsCopy(c) /\ encoder[c].src = TmpLevel(n, l) ) => r < c
            /\ \A r1, r2 \in Range(n) :
                ( /\ IsRender(r1) /\ IsRender(r2)
                  /\ encoder[r1].dst.mip_level < encoder[r2].dst.mip_level ) => r1 < r2
            /\ \A c1, c2 \in Range(n) :
                ( /\ IsCopy(c1) /\ IsCopy(c2)
                  /\ encoder[c1].src.mip_level < encoder[c2].src.mip_level ) => c1 < c2
            /\ \A c \in Range(n) :
                IsCopy(c) => /\ encoder[c].src.texture = Call(n).tmp_texture
                             /\ encoder[c].src.mip_level \in 0..(N - 2)

C8_Witness ==
    /\ Len(calls) = MaxCalls
    /\ Succeeded(MaxCalls)
    /\ N = 3
    /\ Cardinality({i \in Range(MaxCalls) : IsCopy(i)}) = 2
    /\ Cardinality({i \in Range(MaxCalls) : IsRender(i)}) = 2

\* C9: for every temporary level j in 0..N-2 the extent of the recorded copy,
\* mip_extent(mip_extent(size, 1), j), is the original's own extent at the
\* destination level, mip_extent(size, j + 1), with mip_extent(d, i) =
\* max(1, d >> i) per axis.
C9_CopyExtentMatchesDestinationLevel ==
    \A n \in 1..Len(calls) :
        Succeeded(n) =>
            /\ \A j \in 0..(N - 2) :
                \E c \in Range(n) : IsCopy(c) /\ encoder[c].src.mip_level = j
            /\ \A c \in Range(n) :
                IsCopy(c) =>
                    LET j == encoder[c].src.mip_level
                        size == texture_descriptor.size
                    IN  /\ encoder[c].dst.mip_level = j + 1
                        /\ encoder[c].size.width = Max(1, shr(size.width, j + 1))
                        /\ encoder[c].size.height = Max(1, shr(size.height, j + 1))
                        /\ encoder[c].size = get_mip_extent(size, j + 1)
                        /\ encoder[c].size = get_mip_extent(get_mip_extent(size, 1), j)

C9_Witness ==
    /\ Len(calls) >= 1
    /\ Succeeded(1)
    /\ texture_descriptor.size.width = 3
    /\ texture_descriptor.size.height = 1
    /\ N = 3
    /\ \E c \in Range(1) :
        /\ IsCopy(c)
        /\ encoder[c].src.mip_level = 1
        /\ encoder[c].size.width = 1
        /\ encoder[c].size.height = 1

\* C10: for N >= 1 the temporary descriptor has the input's level-1 extent,
\* exactly N - 1 mip levels, the input's format, sample count and dimension,
\* and usage = render generator's required_usage() plus COPY_SRC; every
\* generate call creates its own temporary texture from it, which no other
\* call uses.
C10_TemporaryDescriptorAndFreshTexture ==
    /\ Len(textures) = 1 + Len(calls)
    /\ \A n \in 1..Len(calls) :
        /\ Call(n).tmp_texture \in 2..Len(textures)
        /\ Call(n).tmp_texture # texture
        /\ textures[Call(n).tmp_texture] =
            [size |-> [width |-> Max(1, texture_descriptor.size.width \div 2),
                       height |-> Max(1, texture_descriptor.size.height \div 2),
                       depth_or_array_layers |->
                           texture_descriptor.size.depth_or_array_layers],
             mip_level_count |-> N - 1,
             sample_count |-> texture_descriptor.sample_count,
             dimension |-> texture_descriptor.dimension,
             format |-> texture_descriptor.format,
             usage |-> {"TEXTURE_BINDING", "RENDER_ATTACHMENT", "COPY_SRC"}]
        /\ textures[Call(n).tmp_texture].size = get_mip_extent(texture_descriptor.size, 1)
        /\ \A m \in 1..Len(calls) : m # n => Call(m).tmp_texture # Call(n).tmp_texture
        /\ \A i \in Range(n) :
            /\ encoder[i].src.texture \in {texture, Call(n).tmp_texture}
            /\ encoder[i].dst.texture \in {texture, Call(n).tmp_texture}
        /\ \A i \in 1..Len(encoder) :
            i \notin Range(n) =>
                /\ encoder[i].src.texture # Call(n).tmp_texture
                /\ encoder[i].dst.texture # Call(n).tmp_texture

C10_Witness ==
    /\ Len(calls) = MaxCalls
    /\ Succeeded(1)
    /\ Succeeded(MaxCalls)
    /\ N = MaxMips
    /\ texture_descriptor.sample_count = 4
    /\ texture_descriptor.size.width = 3
    /\ Call(1).tmp_texture # Call(MaxCalls).tmp_texture

====
